---- MODULE Spec2Model ----
(***************************************************************************)
(* Model of the skillhub-registry tooling:                                 *)
(*   scripts/validate_skill.py                  the standalone validator   *)
(*   .github/scripts/process_skill_submission.py the submission path       *)
(*   scripts/generate_index.py                  the Index Builder          *)
(*                                                                         *)
(* A document is a sequence of symbols.  A symbol is one character ("-",   *)
(* "\n", " ", "#", ...), a word (a run of letters that the code only ever  *)
(* looks at as a whole, e.g. "Overview"), or a flow-style YAML node        *)
(* written on one line, which carries the value yaml.safe_load gives it.   *)
(***************************************************************************)
EXTENDS Integers, Sequences, FiniteSets, TLC

\* ------------------------------------------------------------ YAML values

\* The metadata keys the three scripts read.
Fields ==
  {"name", "version", "description", "category", "tags", "author",
   "created", "updated", "difficulty", "estimated_time"}

\* A field value: t is the Python type yaml.safe_load produced ("absent" when
\* the key is not in the mapping), s its characters (str, num) or its items
\* (list).
FV(t, s) == [t |-> t, s |-> s]
Absent == FV("absent", <<>>)
PyNone == FV("null", <<>>)
Str(s) == FV("str", s)
Lst(s) == FV("list", s)
Num(s) == FV("num", s)
Date(s) == FV("date", s)

\* The value under the metadata key: t = "map" (f holds its fields),
\* "emptymap", "str", "list", "num", "null", or "absent" (no such key).
NoFields == [k \in Fields |-> Absent]
MV(t, f) == [t |-> t, f |-> f]
NoMeta == MV("absent", NoFields)

\* What yaml.safe_load returns for a frontmatter text: t = "map" (a mapping
\* with at least one key; m is the value under metadata), "emptymap", "null",
\* "str", "list", or "error" (YAMLError).
Data(t, m) == [t |-> t, m |-> m]
NoData == Data("none", NoMeta)
YamlNone == Data("null", NoMeta)
YamlStr == Data("str", NoMeta)
YamlList == Data("list", NoMeta)
YamlError == Data("error", NoMeta)
YamlEmptyMap == Data("emptymap", NoMeta)
YamlMap(m) == Data("map", m)

\* Python truthiness of a field value (not metadata[field], if tags).
Truthy(v) ==
  CASE v.t = "absent" -> FALSE
    [] v.t = "null" -> FALSE
    [] v.t = "str" -> v.s # <<>>
    [] v.t = "list" -> v.s # <<>>
    [] v.t = "num" -> v.s # <<"0">>
    [] OTHER -> TRUE

\* Python truthiness of the metadata value (if not metadata, if metadata).
MetaTruthy(m) == m.t \in {"map", "str", "list", "num"}

\* ---------------------------------------------------------------- symbols

Ch(c) == [c |-> c, y |-> NoData]
Y(d) == [c |-> "Y", y |-> d]
NL == Ch("\n")
SP == Ch(" ")
DASH == Ch("-")
HASH == Ch("#")
TICK == Ch("tick")
DOT == Ch(".")
DDD == <<DASH, DASH, DASH>>

Lower ==
  {"a","b","c","d","e","f","g","h","i","j","k","l","m",
   "n","o","p","q","r","s","t","u","v","w","x","y","z"}
Upper ==
  {"A","B","C","D","E","F","G","H","I","J","K","L","M",
   "N","O","P","Q","R","S","T","U","V","W","X","Y","Z"}
Digit == {"0","1","2","3","4","5","6","7","8","9"}

\* str.isspace and the regex whitespace class, on the characters of the model.
IsSpace(x) == x.c \in {" ", "\n"}

\* ------------------------------------------------------------ text helpers

\* s[i..] starts with p (1-based).
MatchAt(s, p, i) ==
  /\ i >= 1
  /\ i + Len(p) - 1 <= Len(s)
  /\ \A k \in 1..Len(p) : s[i + k - 1] = p[k]

\* str.startswith
\* (the slip of asking for p anywhere in s: p in s)
StartsAnywhere(s, p) == \E i \in 1..Len(s) : MatchAt(s, p, i)

StartsWith(s, p) == MatchAt(s, p, 1)

\* str.find(p, i-1) + 1: the first index >= i where p occurs, 0 when none.
Find(s, p, i) ==
  LET hits == {j \in i..Len(s) : MatchAt(s, p, j)}
  IN IF hits = {} THEN 0 ELSE CHOOSE j \in hits : \A k \in hits : j <= k

\* p in s
Contains(s, p) == Find(s, p, 1) # 0

\* s[i-1:] in Python terms.
From(s, i) == SubSeq(s, i, Len(s))

\* str.strip()
Strip(s) ==
  LET keep == {i \in 1..Len(s) : ~IsSpace(s[i])}
  IN IF keep = {} THEN <<>>
     ELSE SubSeq(s, CHOOSE i \in keep : \A k \in keep : i <= k,
                    CHOOSE i \in keep : \A k \in keep : i >= k)

\* ------------------------------------------------- regular expressions

\* Python's $ also matches just before a newline that ends the string.
DropFinalNewline(s) ==
  IF Len(s) > 0 /\ s[Len(s)] = "\n" THEN SubSeq(s, 1, Len(s) - 1) ELSE s

\* ^[a-z0-9]+(-[a-z0-9]+)*$ against the whole of t.
KebabBody(t) ==
  /\ Len(t) > 0
  /\ \A i \in 1..Len(t) : t[i] \in Lower \cup Digit \cup {"-"}
  /\ t[1] # "-"
  /\ t[Len(t)] # "-"
  /\ \A i \in 1..(Len(t) - 1) : ~(t[i] = "-" /\ t[i + 1] = "-")

\* re.match(r'^[a-z0-9]+(-[a-z0-9]+)*$', name)
IsKebab(s) == KebabBody(s) \/ KebabBody(DropFinalNewline(s))

\* ^\d+\.\d+\.\d+$ against the whole of t.
SemverBody(t) ==
  \E i \in 1..Len(t) : \E j \in (i + 1)..Len(t) :
    /\ t[i] = "." /\ t[j] = "."
    /\ i > 1 /\ j > i + 1 /\ j < Len(t)
    /\ \A k \in 1..Len(t) : (k # i /\ k # j) => t[k] \in Digit

\* re.match(r'^\d+\.\d+\.\d+$', version)
IsSemver(s) == SemverBody(s) \/ SemverBody(DropFinalNewline(s))

\* ^\d{4}-\d{2}-\d{2}$ against the whole of t.
DateBody(t) ==
  /\ Len(t) = 10
  /\ t[5] = "-" /\ t[8] = "-"
  /\ \A k \in (1..10) \ {5, 8} : t[k] \in Digit

\* re.match(r'^\d{4}-\d{2}-\d{2}$', metadata[date_field])
IsDate(s) == DateBody(s) \/ DateBody(DropFinalNewline(s))

\* ^[a-zA-Z0-9-]+$ against the whole of t.
AlnumHyphenBody(t) ==
  /\ Len(t) > 0
  /\ \A i \in 1..Len(t) : t[i] \in Lower \cup Upper \cup Digit \cup {"-"}

\* re.match(r'^[a-zA-Z0-9-]+$', name)
IsAlnumHyphen(s) == AlnumHyphenBody(s) \/ AlnumHyphenBody(DropFinalNewline(s))

\* -------------------------------------------------------- yaml.safe_load

\* Words: runs of letters the scripts only look at as a whole.
Words ==
  {"x", "Overview", "overview", "Task Description", "Steps", "steps",
   "Expected Output", "Success Criteria", "Prerequisites",
   "Troubleshooting", "Related Skills", "References", "prose",
   "Skill Markdown", "Category", "Custom Category", "markdown", "md", "yaml"}

IsWord(x) == x.c \in Words

\* A "#" opens a YAML comment at the start of the text, after white space
\* and after a flow node; after a plain character it belongs to the scalar.
CommentStart(s, i) ==
  /\ s[i] = HASH
  /\ (i = 1 \/ IsSpace(s[i - 1]) \/ s[i - 1].c = "Y")

Commented(s, k) ==
  \E i \in 1..k :
    /\ CommentStart(s, i)
    /\ \A j \in i..k : s[j] # NL

StripComments(s) ==
  LET keep == {k \in 1..Len(s) : ~Commented(s, k)}
      F[k \in 0..Len(s)] ==
        IF k = 0 THEN <<>>
        ELSE IF k \in keep THEN Append(F[k - 1], s[k]) ELSE F[k - 1]
  IN F[Len(s)]

\* A "---" at the start of the first non-blank line, followed by white space
\* or the end of the text, is the document start marker: the document is
\* what follows it.
StripDocStart(s) ==
  LET keep == {i \in 1..Len(s) : ~IsSpace(s[i])}
      k == IF keep = {} THEN 0 ELSE CHOOSE i \in keep : \A j \in keep : i <= j
  IN IF /\ k > 0
        /\ MatchAt(s, DDD, k)
        /\ (k = 1 \/ s[k - 1] = NL)
        /\ (k + 3 > Len(s) \/ IsSpace(s[k + 3]))
     THEN From(s, k + 3)
     ELSE s

\* yaml.safe_load on a frontmatter text of the model's alphabet: nothing but
\* white space and comments is None, one flow node is that node's value,
\* plain words are one (multi-line) string, anything else does not parse.
yaml_safe_load(text) ==
  LET toks == SelectSeq(StripDocStart(StripComments(text)), LAMBDA x : ~IsSpace(x))
  IN CASE toks = <<>> -> YamlNone
       [] Len(toks) = 1 /\ toks[1].c = "Y" -> toks[1].y
       [] toks # <<>> /\ (\A i \in 1..Len(toks) : IsWord(toks[i]) \/ (i > 1 /\ toks[i] = HASH))
            -> YamlStr
       [] OTHER -> YamlError

\* ------------------------------------------------------ frontmatter split

\* content.split('---', 2): the second "---" anywhere after the first three
\* characters ends the frontmatter; 0 when there is none (fewer than 3 parts).
SecondDelimiter(content) == Find(content, DDD, 4)

\* parts[1] of content.split('---', 2)
SplitFrontmatter(content) == SubSeq(content, 4, SecondDelimiter(content) - 1)

\* parts[2] of content.split('---', 2)
SplitBody(content) == From(content, SecondDelimiter(content) + 3)

\* re.search(r'\n---\s*\n', rest): the first p with a newline at p, "---"
\* after it, and then white space that holds a newline; 0 when none.
ClosingMatch(rest) ==
  LET ok(p) ==
        /\ rest[p] = NL
        /\ MatchAt(rest, DDD, p + 1)
        /\ \E q \in (p + 4)..Len(rest) :
             /\ rest[q] = NL
             /\ \A j \in (p + 4)..(q - 1) : IsSpace(rest[j])
      hits == {p \in 1..Len(rest) : ok(p)}
  IN IF hits = {} THEN 0 ELSE CHOOSE p \in hits : \A k \in hits : p <= k

\* parse_yaml_frontmatter of the submission path: None (YamlNone here) when
\* the content does not start with "---", has no closing line, or the YAML
\* does not parse; else whatever yaml.safe_load returns.
parse_yaml_frontmatter(content) ==
  IF ~StartsWith(content, DDD) THEN YamlNone
  ELSE LET rest == From(content, 4)
           p == ClosingMatch(rest)
       IN IF p = 0 THEN YamlNone
          ELSE LET d == yaml_safe_load(SubSeq(rest, 1, p - 1))
               IN IF d.t = "error" THEN YamlNone ELSE d

\* ------------------------------------------------- diagnostics and results

Err(k, a) == [k |-> k, a |-> a]

\* What a validator run leaves: the two lists and whether an exception
\* escaped it (then nothing was returned; the lists are those at the raise).
Res(e, w, r) == [errors |-> e, warnings |-> w, raised |-> r]
AddErr(acc, k, a) == [acc EXCEPT !.errors = Append(@, Err(k, a))]
AddWarn(acc, k, a) == [acc EXCEPT !.warnings = Append(@, Err(k, a))]
Raise(acc) == [acc EXCEPT !.raised = TRUE]
Fatal(k) == Res(<<Err(k, "")>>, <<>>, FALSE)

\* Op applied to the value of x, which is evaluated once.
With(x, Op(_)) == CHOOSE r \in {Op(v) : v \in {x}} : TRUE

\* The checks 1..n run in order on the lists so far; a raise ends them.
RunChecks(n, Check(_, _), acc0) ==
  LET F[i \in 0..n] ==
        IF i = 0 THEN acc0
        ELSE With(F[i - 1], LAMBDA a : IF a.raised THEN a ELSE Check(i, a))
  IN F[n]

\* field in metadata (the metadata model's strings and lists hold no field
\* name, so only a mapping can have one).
Has(m, k) == m.t = "map" /\ m.f[k].t # "absent"

\* re.match and len raise TypeError on a value that is no string.
IsStr(v) == v.t = "str"
HasLen(v) == v.t \in {"str", "list"}

\* ------------------------------------------- tables of validate_skill.py

REQUIRED_FIELDS == <<"name", "version", "description", "category", "tags", "author">>

Section(w) == <<HASH, HASH, SP, Ch(w)>>

REQUIRED_SECTIONS ==
  <<"Overview", "Task Description", "Steps", "Expected Output", "Success Criteria">>

RECOMMENDED_SECTIONS ==
  <<"Prerequisites", "Troubleshooting", "Related Skills", "References">>

VALID_CATEGORIES ==
  {<<"b","e","n","c","h","m","a","r","k","i","n","g">>,
   <<"d","a","t","a","-","e","n","g","i","n","e","e","r","i","n","g">>,
   <<"w","e","b","-","d","e","v","e","l","o","p","m","e","n","t">>,
   <<"a","u","t","o","m","a","t","i","o","n">>,
   <<"m","l","-","o","p","s">>,
   <<"d","e","v","o","p","s">>,
   <<"t","e","s","t","i","n","g">>,
   <<"d","a","t","a","b","a","s","e">>,
   <<"s","e","c","u","r","i","t","y">>}

VALID_DIFFICULTIES ==
  {<<"b","e","g","i","n","n","e","r">>,
   <<"i","n","t","e","r","m","e","d","i","a","t","e">>,
   <<"a","d","v","a","n","c","e","d">>}

DescMin == 50
DescMax == 200
TagsMin == 3
TagsMax == 10
BodyMin == 1000

DotMd == <<".", "m", "d">>

\* ------------------------------------- validate_skill (validate_skill.py)

\* for field in REQUIRED_FIELDS: missing / empty.  "field in metadata" raises
\* TypeError when metadata is a number.
CheckRequired(acc, m) ==
  RunChecks(Len(REQUIRED_FIELDS),
            LAMBDA i, a :
              IF m.t = "num" THEN Raise(a)
              ELSE IF ~Has(m, REQUIRED_FIELDS[i])
                   THEN AddErr(a, "MissingField", REQUIRED_FIELDS[i])
              ELSE IF ~Truthy(m.f[REQUIRED_FIELDS[i]])
                   THEN AddErr(a, "EmptyField", REQUIRED_FIELDS[i])
              ELSE a,
            acc)

\* kebab-case and file name
CheckName(acc, m, skill_path) ==
  IF acc.raised \/ ~Has(m, "name") THEN acc
  ELSE LET name == m.f["name"]
       IN IF ~IsStr(name) THEN Raise(acc)
          ELSE LET a == IF ~IsKebab(name.s) THEN AddErr(acc, "NameNotKebab", "name")
                        ELSE acc
               IN IF skill_path.name # name.s \o DotMd
                  THEN AddErr(a, "FilenameMismatch", "name")
                  ELSE a

CheckVersion(acc, m) ==
  IF acc.raised \/ ~Has(m, "version") THEN acc
  ELSE LET version == m.f["version"]
       IN IF ~IsStr(version) THEN Raise(acc)
          ELSE IF ~IsSemver(version.s) THEN AddErr(acc, "VersionNotSemver", "version")
          ELSE acc

CheckDescription(acc, m) ==
  IF acc.raised \/ ~Has(m, "description") THEN acc
  ELSE LET d == m.f["description"]
       IN IF ~HasLen(d) THEN Raise(acc)
          ELSE IF Len(d.s) < DescMin THEN AddWarn(acc, "DescriptionTooShort", "description")
          ELSE IF Len(d.s) > DescMax THEN AddWarn(acc, "DescriptionTooLong", "description")
          ELSE acc

CheckCategory(acc, m, skill_path) ==
  IF acc.raised \/ ~Has(m, "category") THEN acc
  ELSE LET category == m.f["category"]
           a == IF ~(IsStr(category) /\ category.s \in VALID_CATEGORIES)
                THEN AddWarn(acc, "CategoryNotStandard", "category")
                ELSE acc
       IN IF ~(IsStr(category) /\ skill_path.parent = category.s)
          THEN AddWarn(a, "CategoryNotDirectory", "category")
          ELSE a

CheckTags(acc, m) ==
  IF acc.raised \/ ~Has(m, "tags") THEN acc
  ELSE LET tags == m.f["tags"]
       IN IF tags.t # "list" THEN AddErr(acc, "TagsNotList", "tags")
          ELSE IF Len(tags.s) < TagsMin THEN AddWarn(acc, "TooFewTags", "tags")
          ELSE IF Len(tags.s) > TagsMax THEN AddWarn(acc, "TooManyTags", "tags")
          ELSE acc

CheckDifficulty(acc, m) ==
  IF acc.raised \/ ~Has(m, "difficulty") THEN acc
  ELSE LET difficulty == m.f["difficulty"]
       IN IF Truthy(difficulty) /\ ~(IsStr(difficulty) /\ difficulty.s \in VALID_DIFFICULTIES)
          THEN AddWarn(acc, "DifficultyNotStandard", "difficulty")
          ELSE acc

CheckDate(acc, m, date_field) ==
  IF acc.raised \/ ~Has(m, date_field) \/ ~Truthy(m.f[date_field]) THEN acc
  ELSE IF ~IsStr(m.f[date_field]) THEN Raise(acc)
  ELSE IF ~IsDate(m.f[date_field].s) THEN AddWarn(acc, "DateFormat", date_field)
  ELSE acc

\* for section in REQUIRED_SECTIONS: if section not in body
CheckSections(acc, body) ==
  LET F[i \in 0..Len(REQUIRED_SECTIONS)] ==
        IF i = 0 THEN acc
        ELSE IF ~Contains(body, Section(REQUIRED_SECTIONS[i]))
             THEN AddErr(F[i - 1], "MissingSection", REQUIRED_SECTIONS[i])
             ELSE F[i - 1]
  IN IF acc.raised THEN acc ELSE F[Len(REQUIRED_SECTIONS)]

\* for section in RECOMMENDED_SECTIONS: if section not in body
CheckRecommended(acc, body) ==
  LET F[i \in 0..Len(RECOMMENDED_SECTIONS)] ==
        IF i = 0 THEN acc
        ELSE IF ~Contains(body, Section(RECOMMENDED_SECTIONS[i]))
             THEN AddWarn(F[i - 1], "MissingRecommended", RECOMMENDED_SECTIONS[i])
             ELSE F[i - 1]
  IN IF acc.raised THEN acc ELSE F[Len(RECOMMENDED_SECTIONS)]

CheckCodeBlocks(acc, body) ==
  IF ~acc.raised /\ ~Contains(body, <<TICK, TICK, TICK>>)
  THEN AddWarn(acc, "NoCodeBlocks", "")
  ELSE acc

\* body.split('## Steps', 1)[1].split('##', 1)[0]
StepsSection(body) ==
  LET after == From(body, Find(body, Section("Steps"), 1) + Len(Section("Steps")))
      cut == Find(after, <<HASH, HASH>>, 1)
  IN IF cut = 0 THEN after ELSE SubSeq(after, 1, cut - 1)

\* re.findall(r'###\s+\d+\.', t) is not empty
HasNumberedStep(t) ==
  \E i \in 1..Len(t) :
    /\ MatchAt(t, <<HASH, HASH, HASH>>, i)
    /\ \E j \in (i + 4)..Len(t) : \E k \in (j + 1)..Len(t) :
         /\ \A x \in (i + 3)..(j - 1) : IsSpace(t[x])
         /\ \A x \in j..(k - 1) : t[x].c \in Digit
         /\ t[k] = DOT

CheckSteps(acc, body) ==
  IF ~acc.raised /\ Contains(body, Section("Steps")) /\ ~HasNumberedStep(StepsSection(body))
  THEN AddWarn(acc, "StepsNotNumbered", "")
  ELSE acc

\* The number of characters a symbol stands for: a word has its letters,
\* "prose" is a block of a thousand characters of running text, a flow node
\* is taken as thirty characters.
Width(x) ==
  CASE x.c = "Overview" -> 8
    [] x.c = "overview" -> 8
    [] x.c = "Task Description" -> 16
    [] x.c = "Steps" -> 5
    [] x.c = "steps" -> 5
    [] x.c = "Expected Output" -> 15
    [] x.c = "Success Criteria" -> 16
    [] x.c = "Prerequisites" -> 13
    [] x.c = "Troubleshooting" -> 15
    [] x.c = "Related Skills" -> 14
    [] x.c = "References" -> 10
    [] x.c = "prose" -> 1000
    [] x.c = "Y" -> 30
    [] OTHER -> 1

\* len(text)
TextLen(t) ==
  LET F[i \in 0..Len(t)] == IF i = 0 THEN 0 ELSE F[i - 1] + Width(t[i])
  IN F[Len(t)]

CheckBodyLength(acc, body) ==
  IF ~acc.raised /\ TextLen(Strip(body)) < BodyMin
  THEN AddWarn(acc, "BodyShort", "")
  ELSE acc

\* Lines 99-192: the field-level and section-level checks, in the order of
\* the code; a raise ends them.
FieldAndBodyChecks(metadata, body, skill_path) ==
  RunChecks(14,
            LAMBDA i, a :
              CASE i = 1 -> CheckRequired(a, metadata)
                [] i = 2 -> CheckName(a, metadata, skill_path)
                [] i = 3 -> CheckVersion(a, metadata)
                [] i = 4 -> CheckDescription(a, metadata)
                [] i = 5 -> CheckCategory(a, metadata, skill_path)
                [] i = 6 -> CheckTags(a, metadata)
                [] i = 7 -> CheckDifficulty(a, metadata)
                [] i = 8 -> CheckDate(a, metadata, "created")
                [] i = 9 -> CheckDate(a, metadata, "updated")
                [] i = 10 -> CheckSections(a, body)
                [] i = 11 -> CheckRecommended(a, body)
                [] i = 12 -> CheckCodeBlocks(a, body)
                [] i = 13 -> CheckSteps(a, body)
                [] OTHER -> CheckBodyLength(a, body),
            Res(<<>>, <<>>, FALSE))

\* validate_skill(skill_path) of validate_skill.py; content is what the file
\* holds.  data.get on a string or a list raises AttributeError, which the
\* except Exception clause turns into an error.
validate_skill(skill_path, content) ==
  IF ~skill_path.exists THEN Fatal("FileNotFound")
  ELSE IF ~skill_path.readable THEN Fatal("ReadFailed")
  ELSE IF ~StartsWith(content, DDD) THEN Fatal("MissingFrontmatter")
  ELSE IF SecondDelimiter(content) = 0 THEN Fatal("NoClosingDelimiter")
  ELSE With(yaml_safe_load(SplitFrontmatter(content)),
            LAMBDA data :
              CASE data.t = "error" -> Fatal("InvalidYaml")
                [] data.t \in {"null", "emptymap"} -> Fatal("EmptyFrontmatter")
                [] data.t \in {"str", "list"} -> Fatal("ParseFailed")
                [] OTHER ->
                     IF ~MetaTruthy(data.m) THEN Fatal("MissingMetadata")
                     ELSE With(SplitBody(content),
                               LAMBDA body : FieldAndBodyChecks(data.m, body, skill_path)))

\* (the slip of letting warnings fail the run)
validate_exit_strict(r) ==
  IF r.raised \/ r.errors # <<>> \/ r.warnings # <<>> THEN 1 ELSE 0

\* __main__ of validate_skill.py: sys.exit(1) if errors else sys.exit(0); an
\* uncaught exception ends the interpreter with status 1.
validate_exit(r) == IF r.raised \/ r.errors # <<>> THEN 1 ELSE 0

\* ------------------------- process_skill_submission.py: the submission path

\* extract_skill_content: the text between "### Skill Markdown" and
\* "\n### Category", stripped, without a wrapping code fence.
StartMarker == <<HASH, HASH, HASH, SP, Ch("Skill Markdown")>>
EndMarker == <<NL, HASH, HASH, HASH, SP, Ch("Category")>>
Fence == <<TICK, TICK, TICK>>

\* re.sub(r'^```(?:markdown|md|yaml)?\s*\n', '', content)
DropOpeningFence(content) ==
  IF ~StartsWith(content, Fence) THEN content
  ELSE LET t == IF Len(content) > 3 /\ content[4].c \in {"markdown", "md", "yaml"}
                THEN 5 ELSE 4
           ends == {q \in t..Len(content) :
                      /\ content[q] = NL
                      /\ \A j \in t..q : IsSpace(content[j])}
       IN IF ends = {} THEN content
          ELSE From(content, (CHOOSE q \in ends : \A k \in ends : q >= k) + 1)

\* re.sub(r'\n```\s*$', '', content) on a stripped content
DropClosingFence(content) ==
  LET n == Len(content)
  IN IF n >= 4 /\ MatchAt(content, <<NL>> \o Fence, n - 3)
     THEN SubSeq(content, 1, n - 4)
     ELSE content

extract_skill_content(body) ==
  LET start_idx == Find(body, StartMarker, 1)
  IN IF start_idx = 0 THEN <<>>
     ELSE LET from == start_idx + Len(StartMarker)
              end_idx == Find(body, EndMarker, from)
              content == IF end_idx = 0 THEN From(body, from)
                         ELSE SubSeq(body, from, end_idx - 1)
          IN Strip(DropClosingFence(DropOpeningFence(Strip(content))))

\* re.search(rf'^##\s+{section}', content, re.MULTILINE | re.IGNORECASE)
LowerWord(w) ==
  CASE w = "Overview" -> "overview"
    [] w = "Steps" -> "steps"
    [] OTHER -> w

HasHeading(content, section) ==
  \E i \in 1..Len(content) :
    /\ (i = 1 \/ content[i - 1] = NL)
    /\ MatchAt(content, <<HASH, HASH>>, i)
    /\ \E j \in (i + 3)..Len(content) :
         /\ \A x \in (i + 2)..(j - 1) : IsSpace(content[x])
         /\ LowerWord(content[j].c) = LowerWord(section)

SubRes(v, e, w, r) == [is_valid |-> v, errors |-> e, warnings |-> w, raised |-> r]
SubFatal(k) == SubRes(FALSE, <<Err(k, "")>>, <<>>, FALSE)

SUBMISSION_REQUIRED == <<"name", "description", "category", "tags", "author">>
SUBMISSION_SECTIONS == <<"Overview", "Steps">>

\* for field in required_fields: if field not in metadata or not metadata[field]
SubCheckRequired(acc, m) ==
  RunChecks(Len(SUBMISSION_REQUIRED),
            LAMBDA i, a :
              IF m.t = "num" THEN Raise(a)
              ELSE IF ~Has(m, SUBMISSION_REQUIRED[i]) \/ ~Truthy(m.f[SUBMISSION_REQUIRED[i]])
                   THEN AddErr(a, "MissingField", SUBMISSION_REQUIRED[i])
              ELSE a,
            acc)

SubCheckVersion(acc, m) ==
  IF ~acc.raised /\ ~Has(m, "version")
  THEN AddWarn(acc, "MissingVersion", "version")
  ELSE acc

\* name = metadata.get('name', ''): only a mapping has get.
SubCheckName(acc, m) ==
  IF acc.raised THEN acc
  ELSE IF m.t # "map" THEN Raise(acc)
  ELSE LET name == m.f["name"]
       IN IF ~Truthy(name) THEN acc
          ELSE IF ~IsStr(name) THEN Raise(acc)
          ELSE IF ~IsAlnumHyphen(name.s) THEN AddErr(acc, "NameChars", "name")
          ELSE IF \E i \in 1..Len(name.s) : name.s[i] = " "
               THEN AddErr(acc, "NameSpaces", "name")
          ELSE acc

SubCheckTags(acc, m) ==
  IF acc.raised THEN acc
  ELSE IF Truthy(m.f["tags"]) /\ m.f["tags"].t # "list"
       THEN AddErr(acc, "TagsNotList", "tags")
       ELSE acc

SubCheckSections(acc, content) ==
  LET F[i \in 0..Len(SUBMISSION_SECTIONS)] ==
        IF i = 0 THEN acc
        ELSE IF ~HasHeading(content, SUBMISSION_SECTIONS[i])
             THEN AddWarn(F[i - 1], "MissingRecommended", SUBMISSION_SECTIONS[i])
             ELSE F[i - 1]
  IN IF acc.raised THEN acc ELSE F[Len(SUBMISSION_SECTIONS)]

\* Lines 160-189, in the order of the code; a raise ends them.
SubChecks(metadata, content) ==
  RunChecks(5,
            LAMBDA i, a :
              CASE i = 1 -> SubCheckRequired(a, metadata)
                [] i = 2 -> SubCheckVersion(a, metadata)
                [] i = 3 -> SubCheckName(a, metadata)
                [] i = 4 -> SubCheckTags(a, metadata)
                [] OTHER -> SubCheckSections(a, content),
            Res(<<>>, <<>>, FALSE))

\* return len(errors) == 0, errors, warnings
SubVerdict(acc) == ~acc.raised /\ acc.errors = <<>>

\* validate_skill(content) of process_skill_submission.py.  frontmatter.get
\* raises AttributeError when the frontmatter parsed to a string or a list.
submission_validate_skill(content) ==
  IF ~StartsWith(content, DDD) THEN SubFatal("MissingFrontmatter")
  ELSE With(parse_yaml_frontmatter(content),
            LAMBDA frontmatter :
              CASE frontmatter.t = "null" -> SubFatal("InvalidFrontmatter")
                [] frontmatter.t \in {"str", "list"} -> SubRes(FALSE, <<>>, <<>>, TRUE)
                [] OTHER ->
                     IF ~MetaTruthy(frontmatter.m) THEN SubFatal("MissingMetadata")
                     ELSE With(SubChecks(frontmatter.m, content),
                               LAMBDA a : SubRes(SubVerdict(a), a.errors, a.warnings,
                                                 a.raised)))

\* main() of process_skill_submission.py up to its exit status: no skill
\* content or an invalid skill exits 1; after a valid verdict the category
\* is normalised with skill_category.lower(), which only a string has.
NotRun == SubRes(FALSE, <<>>, <<>>, FALSE)

MainAfterValidation(skill_content, r) ==
  LET category == parse_yaml_frontmatter(skill_content).m.f["category"]
  IN IF r.raised \/ ~r.is_valid
     THEN [skill_content |-> skill_content, validated |-> TRUE, res |-> r, exit |-> 1]
     ELSE IF Truthy(category) /\ ~IsStr(category)
     THEN [skill_content |-> skill_content, validated |-> TRUE, res |-> r, exit |-> 1]
     ELSE [skill_content |-> skill_content, validated |-> TRUE, res |-> r, exit |-> 0]

submission_main(issue_body) ==
  With(extract_skill_content(issue_body),
       LAMBDA skill_content :
         IF skill_content = <<>>
         THEN [skill_content |-> skill_content, validated |-> FALSE, res |-> NotRun,
               exit |-> 1]
         ELSE With(submission_validate_skill(skill_content),
                   LAMBDA r : MainAfterValidation(skill_content, r)))

\* ------------------------------- extract_category (the submission path)

CategoryMarker == <<NL, HASH, HASH, HASH, SP, Ch("Category"), NL>>
CategoryMarkerAtStart == <<HASH, HASH, HASH, SP, Ch("Category"), NL>>
CustomMarker == <<HASH, HASH, HASH, SP, Ch("Custom Category")>>
ChecklistMarker == <<HASH, HASH, HASH, SP, Ch("Submission Checklist")>>
AnyHeading == <<NL, HASH, HASH, HASH, SP>>
Other == <<Ch("o"), Ch("t"), Ch("h"), Ch("e"), Ch("r")>>

UpperLetters ==
  <<"A","B","C","D","E","F","G","H","I","J","K","L","M",
    "N","O","P","Q","R","S","T","U","V","W","X","Y","Z">>
LowerLetters ==
  <<"a","b","c","d","e","f","g","h","i","j","k","l","m",
    "n","o","p","q","r","s","t","u","v","w","x","y","z">>

\* str.lower() on one symbol: a capital becomes its small letter, a word
\* its small-letter form.
LowerSymbol(x) ==
  CASE x.c \in Upper -> Ch(LowerLetters[CHOOSE i \in 1..26 : UpperLetters[i] = x.c])
    [] x.c = "Category" -> Ch("category")
    [] x.c = "Custom Category" -> Ch("custom category")
    [] x.c = "Submission Checklist" -> Ch("submission checklist")
    [] x.c = "Skill Markdown" -> Ch("skill markdown")
    [] OTHER -> x

\* str.lower()
lower(t) == [i \in 1..Len(t) |-> LowerSymbol(t[i])]

\* str.replace(" ", "-")
\* (the slip of leaving the replace out)
keep_spaces(t) == t

replace_spaces(t) == [i \in 1..Len(t) |-> IF t[i] = SP THEN DASH ELSE t[i]]

\* Lines 90-97: the text from from up to the first of "\n### Custom Category"
\* and "\n### Submission Checklist" found at or after from, stripped.
SelectedCategory(body, from) ==
  LET ends == {Find(body, <<NL>> \o CustomMarker, from),
               Find(body, <<NL>> \o ChecklistMarker, from)} \ {0}
      end_idx == IF ends = {} THEN Len(body) + 1
                 ELSE CHOOSE e \in ends : \A k \in ends : e <= k
  IN Strip(SubSeq(body, from, end_idx - 1))

\* Lines 101-107: the text from the line after "### Custom Category" (from
\* the start of the body when no newline follows it) up to the next
\* "\n### ", stripped; empty when there is no such heading.
CustomCategory(body) ==
  LET heading == Find(body, CustomMarker, 1)
      custom_start == Find(body, <<NL>>, heading) + 1
      found == Find(body, AnyHeading, custom_start)
      custom_end == IF found = 0 THEN Len(body) + 1 ELSE found
  IN IF heading = 0 THEN <<>>
     ELSE Strip(SubSeq(body, custom_start, custom_end - 1))

\* Lines 99-111: the custom category, lower-cased and hyphenated, when
\* "other" was selected and a custom category is given; else the selected
\* category, lower-cased.
ResolveCategory(body, category) ==
  IF lower(category) = Other /\ CustomCategory(body) # <<>>
  THEN replace_spaces(lower(CustomCategory(body)))
  ELSE lower(category)

\* extract_category(body)
extract_category(body) ==
  LET first == Find(body, CategoryMarker, 1)
      second == Find(body, CategoryMarkerAtStart, 1)
  IN IF first # 0
     THEN With(SelectedCategory(body, first + Len(CategoryMarker)),
               LAMBDA category : ResolveCategory(body, category))
     ELSE IF second # 0
     THEN With(SelectedCategory(body, second + Len(CategoryMarkerAtStart)),
               LAMBDA category : ResolveCategory(body, category))
     ELSE <<>>

\* ------------------------------------------------------ generate_index.py

\* extract_metadata(skill_path): the value under metadata, or None (MetaNone
\* here) for a file that cannot be read, has no frontmatter, does not parse,
\* or parses to something without a metadata key.  Every exception is caught.
MetaNone == MV("null", NoFields)

extract_metadata(file) ==
  IF ~file.readable THEN MetaNone
  ELSE IF ~StartsWith(file.content, DDD) THEN MetaNone
  ELSE IF SecondDelimiter(file.content) = 0 THEN MetaNone
  ELSE With(yaml_safe_load(SplitFrontmatter(file.content)),
            LAMBDA data : IF data.t # "map" \/ data.m.t = "absent" THEN MetaNone
                          ELSE data.m)

\* (the slip of writing metadata.get(key) or default)
GetOrDefault(metadata, key, default) ==
  IF ~Truthy(metadata.f[key]) THEN default ELSE metadata.f[key]

\* metadata.get(key, default)
Get(metadata, key, default) ==
  IF metadata.f[key].t = "absent" THEN default ELSE metadata.f[key]

\* skill_entry of generate_index: the ten metadata fields with their
\* defaults, the path and the url.
SkillEntry(metadata, skill_file, base_url) ==
  [f |-> [k \in Fields |->
            CASE k = "version" -> Get(metadata, k, Str(<<"1", ".", "0", ".", "0">>))
              [] k = "category" -> Get(metadata, k, Str(skill_file.parent))
              [] k = "tags" -> Get(metadata, k, Lst(<<>>))
              [] k = "author" -> Get(metadata, k, Str(<<"u","n","k","n","o","w","n">>))
              [] OTHER -> Get(metadata, k, Str(<<>>))],
   path |-> skill_file.path,
   url |-> <<base_url, skill_file.path>>]

\* json.dump cannot serialise a datetime.date
Serialisable(entry) == \A k \in Fields : entry.f[k].t # "date"

\* ------------------------------------------------------------- documents

\* The skill of the spec's scenario: demo-skill, in skills/testing.
DemoName == <<"d","e","m","o","-","s","k","i","l","l">>
Testing == <<"t","e","s","t","i","n","g">>
Xs(n) == [i \in 1..n |-> "x"]

DemoFields ==
  [k \in Fields |->
     CASE k = "name" -> Str(DemoName)
       [] k = "version" -> Str(<<"1", ".", "0", ".", "0">>)
       [] k = "description" -> Str(Xs(60))
       [] k = "category" -> Str(Testing)
       [] k = "tags" -> Lst(<<"a", "b", "c">>)
       [] k = "author" -> Str(<<"a","l","i","c","e">>)
       [] OTHER -> Absent]

\* A heading line of the body.
Heading(w) == Section(w) \o <<NL>>

AllSections ==
  Heading("Overview") \o Heading("Task Description") \o Heading("Steps")
    \o Heading("Expected Output") \o Heading("Success Criteria")

\* "---", the frontmatter as one flow node, "---", the body.
DataDoc(data, body) == DDD \o <<NL, Y(data), NL>> \o DDD \o <<NL>> \o body

\* The same with a mapping that has the key metadata.
MetaDoc(m, body) == DataDoc(YamlMap(m), body)

\* A file of the tree (and the path given to the standalone validator).
File(path, parent, name, content) ==
  [path |-> path, exists |-> TRUE, readable |-> TRUE, parent |-> parent,
   name |-> name, content |-> content]

DemoFile == File(1, Testing, DemoName \o DotMd, MetaDoc(MV("map", DemoFields), AllSections))

\* ------------------------------------------------- the documents explored

\* Documents that differ from the demo skill in at most MaxDeviations places
\* (a metadata field, the shape of metadata, the body, the file).
MaxDeviations == 2

\* Text documents of at most MaxLines lines.
MaxLines == 3

FieldAlts(k) ==
  CASE k = "name" ->
         <<Absent, Str(<<>>), Str(<<"M", "y", " ", "S", "k", "i", "l", "l">>), Num(<<"7">>)>>
    [] k = "version" -> <<Absent, Str(<<"1", ".", "0">>), Num(<<"1", ".", "0">>)>>
    [] k = "description" -> <<Absent, Str(Xs(3)), Str(Xs(201))>>
    [] k = "category" -> <<Absent, Str(<<"m","i","s","c">>)>>
    [] k = "tags" -> <<Absent, Lst(<<>>), Lst(Xs(11)), Str(<<"a",",","b",",","c">>)>>
    [] k = "author" -> <<Absent>>
    [] k = "created" ->
         <<Str(<<"2","0","2","4","-","0","1","-","0","1">>), Str(<<"s","o","o","n">>),
           Date(<<"2","0","2","4","-","0","1","-","0","1">>)>>
    [] k = "difficulty" ->
         <<Str(<<"b","e","g","i","n","n","e","r">>), Str(<<"e","x","p","e","r","t">>)>>
    [] OTHER -> <<Str(<<"1", "h">>)>>

\* metadata: abc / [a] / 7 / (nothing) / {} and no metadata key at all.
MetaAlts ==
  <<MV("str", NoFields), MV("list", NoFields), MV("num", NoFields),
    MV("null", NoFields), MV("emptymap", NoFields), NoMeta>>

\* A frontmatter that is no mapping: abc / [a] / (nothing) / bad syntax.
DataAlts == <<YamlStr, YamlList, YamlNone, YamlError>>

RichBody ==
  Heading("Overview") \o Heading("Task Description") \o Heading("Steps")
    \o <<HASH, HASH, HASH, SP, Ch("1"), DOT, SP, Ch("prose"), NL>>
    \o <<TICK, TICK, TICK, NL, Ch("x"), NL, TICK, TICK, TICK, NL>>
    \o Heading("Expected Output") \o Heading("Success Criteria")
    \o Heading("Prerequisites") \o Heading("Troubleshooting")
    \o Heading("Related Skills") \o Heading("References")

BodyAlts ==
  <<<<>>,
    Heading("overview") \o Heading("Task Description")
      \o Heading("Expected Output") \o Heading("Success Criteria"),
    RichBody>>

\* The file: another name, another directory, missing, unreadable.
FileAlts(f) ==
  <<[f EXCEPT !.name = <<"o">> \o DotMd],
    [f EXCEPT !.parent = <<"m","i","s","c">>],
    [f EXCEPT !.exists = FALSE, !.readable = FALSE],
    [f EXCEPT !.readable = FALSE]>>

\* The places a document can differ from the demo skill in.
Dims ==
  {"name", "version", "description", "category", "tags", "author", "created",
   "difficulty", "@data", "@meta", "@body", "@file"}

NAlts(d) ==
  CASE d = "@data" -> Len(DataAlts)
    [] d = "@meta" -> Len(MetaAlts)
    [] d = "@body" -> Len(BodyAlts)
    [] d = "@file" -> Len(FileAlts(DemoFile))
    [] OTHER -> Len(FieldAlts(d))

\* The demo file with the places in D changed as c says.
Deviate(D, c) ==
  LET fields == [k \in Fields |-> IF k \in D THEN FieldAlts(k)[c[k]] ELSE DemoFields[k]]
      meta == IF "@meta" \in D THEN MetaAlts[c["@meta"]] ELSE MV("map", fields)
      data == IF "@data" \in D THEN DataAlts[c["@data"]] ELSE YamlMap(meta)
      body == IF "@body" \in D THEN BodyAlts[c["@body"]] ELSE AllSections
      f == [DemoFile EXCEPT !.content = DataDoc(data, body)]
  IN IF "@file" \in D THEN FileAlts(f)[c["@file"]] ELSE f

FieldFiles ==
  UNION {{Deviate(D, c) : c \in {x \in [D -> 1..6] : \A d \in D : x[d] <= NAlts(d)}} :
           D \in {S \in SUBSET Dims : Cardinality(S) <= MaxDeviations}}

Good == Y(YamlMap(MV("map", DemoFields)))

\* The lines a text document is made of.
LineKinds ==
  {DDD,
   DDD \o <<SP>>,
   DDD \o <<SP, Good>>,
   <<Good>> \o DDD,
   <<Good>>,
   <<Ch("x")>>,
   <<>>}

\* The lines joined, each ended by a newline.
Join(lines) ==
  LET F[i \in 0..Len(lines)] ==
        IF i = 0 THEN <<>> ELSE F[i - 1] \o lines[i] \o <<NL>>
  IN F[Len(lines)]

TextFiles ==
  UNION {{[DemoFile EXCEPT !.content = Join(ls)] : ls \in [1..n -> LineKinds]} :
           n \in 0..MaxLines}

\* The issue form around a pasted skill, with or without a code fence.
IssueBody(content, fenced) ==
  StartMarker \o <<NL, NL>>
    \o (IF fenced THEN Fence \o <<Ch("markdown"), NL>> \o content \o <<NL>> \o Fence
        ELSE content)
    \o <<NL>> \o EndMarker \o <<NL, NL, Ch("x")>>

\* ------------------------------------------------- the trees explored

\* A tree holds at most MaxFiles of the files below.
MaxFiles == 2

\* The Index Builder runs at most MaxRuns times on a tree.
MaxRuns == 2

At(f, p) == [f EXCEPT !.path = p]

\* Skill files of a tree, by path: the demo skill; a skill that leaves the
\* optional fields out; one without name; one with an empty description;
\* text without frontmatter; an unreadable file; metadata that is a string;
\* a created date YAML reads as a date; frontmatter that does not parse;
\* fields present but empty; a "---" inside the frontmatter's line.
TreeFiles ==
  {DemoFile,
   At([DemoFile EXCEPT
         !.parent = <<"m","i","s","c">>,
         !.name = <<"o">> \o DotMd,
         !.content = MetaDoc(MV("map", [NoFields EXCEPT
                                          !["name"] = Str(<<"o">>),
                                          !["description"] = Str(Xs(3))]),
                             AllSections)], 2),
   At(Deviate({"name"}, [d \in {"name"} |-> 1]), 3),
   At([DemoFile EXCEPT
         !.content = MetaDoc(MV("map", [DemoFields EXCEPT !["description"] = Str(<<>>)]),
                             AllSections)], 4),
   At([DemoFile EXCEPT !.content = <<Ch("x"), NL>>], 5),
   At([DemoFile EXCEPT !.readable = FALSE], 6),
   At(Deviate({"@meta"}, [d \in {"@meta"} |-> 1]), 7),
   At(Deviate({"created"}, [d \in {"created"} |-> 3]), 8),
   At([DemoFile EXCEPT !.content = DDD \o <<NL, Y(YamlError), NL>> \o DDD \o <<NL>>], 9),
   At([DemoFile EXCEPT
         !.content = MetaDoc(MV("map", [DemoFields EXCEPT !["category"] = Str(<<>>),
                                                          !["author"] = PyNone,
                                                          !["tags"] = Lst(<<>>)]),
                             AllSections)], 10),
   At([DemoFile EXCEPT !.content = DDD \o <<NL, Good>> \o DDD \o <<NL>> \o AllSections], 11)}

Trees == {S \in SUBSET TreeFiles : Cardinality(S) <= MaxFiles}

\* The orders skills_dir.rglob can produce the files of a tree in.
Orders(S) ==
  {o \in [1..Cardinality(S) -> S] : \A i, j \in 1..Cardinality(S) : i # j => o[i] # o[j]}

\* ------------------------------------------------- the issue forms explored

\* The category fields hold at most MaxChars characters (or "other").
MaxChars == 3

\* What a contributor can type: capitals and spaces (the small letters are
\* in the forms of "other").
Texts ==
  UNION {[1..n -> {Ch("A"), SP}] : n \in 0..MaxChars}

OtherForms ==
  {Other,
   <<Ch("O"), Ch("t"), Ch("h"), Ch("e"), Ch("r")>>,
   <<Ch("O"), Ch("T"), Ch("H"), Ch("E"), Ch("R")>>}

\* A filled-in form: the category selected, the custom category field (when
\* the form has one), whether the checklist follows, whether the skill
\* field comes before the category, and whether the fields are written
\* without blank lines.
Forms ==
  [selected : Texts \cup OtherForms,
   has_custom : {TRUE},
   custom : Texts,
   checklist : BOOLEAN,
   lead : BOOLEAN,
   tight : BOOLEAN]
    \cup
  [selected : Texts \cup OtherForms,
   has_custom : {FALSE},
   custom : {<<>>},
   checklist : BOOLEAN,
   lead : BOOLEAN,
   tight : BOOLEAN]

\* The issue body the form comes as: "### <Field>" headings, each followed
\* by what was entered.
FormBody(form) ==
  LET blank == IF form.tight THEN <<>> ELSE <<NL>>
  IN (IF form.lead THEN StartMarker \o <<NL>> \o blank \o <<Ch("x"), NL>> \o blank
      ELSE <<>>)
       \o CategoryMarkerAtStart \o blank \o form.selected \o <<NL>> \o blank
       \o (IF form.has_custom
           THEN CustomMarker \o <<NL>> \o blank \o form.custom \o <<NL>> \o blank
           ELSE <<>>)
       \o (IF form.checklist THEN ChecklistMarker \o <<NL>> \o blank \o <<Ch("x")>>
           ELSE <<>>)

\* ------------------------------------------------- generate_index, the run

BaseUrl == "https://raw.githubusercontent.com/v1k22/skillhub-registry/main"

\* (the slip of leaving sorted out)
Unsorted(order) == order

\* sorted(...): the same files, by path
Sorted(order) ==
  CHOOSE o \in Orders({order[i] : i \in 1..Len(order)}) :
    \A i, j \in 1..Len(order) : i < j => o[i].path < o[j].path

NoIndex == [version |-> "", generated |-> 0, skills |-> <<>>]
NoIndexFile == [exists |-> FALSE, complete |-> FALSE, doc |-> NoIndex]

\* The loop's state: the entries, the two counters, the files gone through.
Scan(skills, sc, ec, processed, raised) ==
  [skills |-> skills, skill_count |-> sc, error_count |-> ec,
   processed |-> processed, raised |-> raised]

\* One pass of the loop body, lines 64-100.  metadata.get on a truthy value
\* that is no mapping raises AttributeError, outside any try.
ProcessFile(acc, skill_file, base_url) ==
  With(extract_metadata(skill_file),
       LAMBDA metadata :
         IF ~MetaTruthy(metadata)
         THEN [acc EXCEPT !.error_count = @ + 1,
                          !.processed = Append(@, skill_file.path)]
         ELSE IF metadata.t # "map"
         THEN [acc EXCEPT !.raised = TRUE]
         ELSE IF \/ ~Truthy(SkillEntry(metadata, skill_file, base_url).f["name"])
                 \/ ~Truthy(SkillEntry(metadata, skill_file, base_url).f["description"])
         THEN [acc EXCEPT !.error_count = @ + 1,
                          !.processed = Append(@, skill_file.path)]
         ELSE [acc EXCEPT !.skills = Append(@, SkillEntry(metadata, skill_file, base_url)),
                          !.skill_count = @ + 1,
                          !.processed = Append(@, skill_file.path)])

\* for skill_file in sorted(skills_dir.rglob('*.md')): ...
ScanTree(order, base_url) ==
  With(Sorted(order),
       LAMBDA files :
         RunChecks(Len(files), LAMBDA i, a : ProcessFile(a, files[i], base_url),
                   Scan(<<>>, 0, 0, <<>>, FALSE)))

\* json.dump(index, f): the file is opened for writing (and so emptied) and
\* the document streamed into it; an entry that is not serialisable ends the
\* dump with TypeError, the file holding the text before that entry.
json_dump(index) ==
  LET bad == {i \in 1..Len(index.skills) : ~Serialisable(index.skills[i])}
      first == CHOOSE i \in bad : \A j \in bad : i <= j
  IN IF bad = {} THEN [exists |-> TRUE, complete |-> TRUE, doc |-> index]
     ELSE [exists |-> TRUE, complete |-> FALSE,
           doc |-> [index EXCEPT !.skills = SubSeq(@, 1, first - 1)]]

\* What a run leaves: the index in memory, the counters, index.json, and
\* what generate_index returned ("raised" when an exception ended it).
Outcome(index, a, index_file, result) ==
  [index |-> index, skill_count |-> a.skill_count, error_count |-> a.error_count,
   processed |-> a.processed, index_file |-> index_file, result |-> result]

generate_index(dir, order, now, old_file, base_url) ==
  IF ~dir.exists
  THEN Outcome(NoIndex, Scan(<<>>, 0, 0, <<>>, FALSE), old_file, "false")
  ELSE With(ScanTree(order, base_url),
            LAMBDA a :
              With([version |-> "1.0.0", generated |-> now, skills |-> a.skills],
                   LAMBDA ix :
                     IF a.raised THEN Outcome(ix, a, old_file, "raised")
                     ELSE IF ~json_dump(ix).complete
                     THEN Outcome(ix, a, json_dump(ix), "raised")
                     ELSE Outcome(ix, a, json_dump(ix),
                                  IF a.skill_count > 0 THEN "true" ELSE "false")))

\* exit(0) if success, exit(1) if not; an uncaught exception exits with 1
index_exit(result) == IF result = "true" THEN 0 ELSE 1

\* ------------------------------------------------------------------ state

VARIABLES
  file,          \* the skill file handed to a tool
  tool,          \* "none", then the tool that ran on it
  vres,          \* validate_skill.py: the result and the exit status
  sres,          \* process_skill_submission.py: main's outcome
  eres,          \* generate_index.py: what extract_metadata returned
  skills_dir,    \* the skills tree: whether it exists and its files
  runs,          \* how many times the Index Builder has run
  index,         \* the index the last run built in memory
  skill_count,
  error_count,
  processed,     \* the paths the last run's loop went through, in order
  index_file,    \* index.json on disk
  prev_file,     \* index.json as the run before the last left it
  result,        \* what generate_index returned ("raised": it did not)
  prev_result,
  exit_code,     \* the exit status of the last run
  clock,         \* datetime.now()
  form,          \* the submission form as it was filled in
  issue_body,    \* the issue body process_skill_submission.py reads
  extracted,     \* whether extract_category has run on it
  form_category  \* what extract_category returned

docVars == <<file, tool, vres, sres, eres>>
indexVars ==
  <<skills_dir, runs, index, skill_count, error_count, processed, index_file,
    prev_file, result, prev_result, exit_code, clock>>
formVars == <<form, issue_body, extracted, form_category>>
vars == <<docVars, indexVars, formVars>>

NoResult == [res |-> Res(<<>>, <<>>, FALSE), exit |-> 0]
NoSubmission ==
  [skill_content |-> <<>>, validated |-> FALSE, res |-> NotRun, exit |-> 0]

DocIdle ==
  /\ file = DemoFile
  /\ tool = "none"
  /\ vres = NoResult
  /\ sres = NoSubmission
  /\ eres = MetaNone

NoForm ==
  [selected |-> <<>>, has_custom |-> FALSE, custom |-> <<>>, checklist |-> FALSE,
   lead |-> FALSE, tight |-> FALSE]

FormIdle ==
  /\ form = NoForm
  /\ issue_body = <<>>
  /\ extracted = FALSE
  /\ form_category = <<>>

IndexIdle ==
  /\ runs = 0
  /\ index = NoIndex
  /\ skill_count = 0
  /\ error_count = 0
  /\ processed = <<>>
  /\ index_file = NoIndexFile
  /\ prev_file = NoIndexFile
  /\ result = "none"
  /\ prev_result = "none"
  /\ exit_code = 0
  /\ clock = 0

\* One skill file and one of the tools run on it.
Init ==
  /\ file \in FieldFiles \cup TextFiles
  /\ tool = "none"
  /\ vres = NoResult
  /\ sres = NoSubmission
  /\ eres = MetaNone
  /\ skills_dir = [exists |-> FALSE, files |-> {}]
  /\ IndexIdle
  /\ FormIdle

\* python validate_skill.py <file>
Validate ==
  /\ tool = "none"
  /\ tool' = "validate"
  /\ LET r == validate_skill(file, file.content)
     IN vres' = [res |-> r, exit |-> validate_exit(r)]
  /\ UNCHANGED <<file, sres, eres, indexVars, formVars>>

\* python process_skill_submission.py <issue body holding the file's text>
Submit ==
  /\ tool = "none"
  /\ tool' = "submit"
  /\ \E fenced \in BOOLEAN : sres' = submission_main(IssueBody(file.content, fenced))
  /\ UNCHANGED <<file, vres, eres, indexVars, formVars>>

\* extract_metadata(file), as the Index Builder calls it
Extract ==
  /\ tool = "none"
  /\ tool' = "extract"
  /\ eres' = extract_metadata(file)
  /\ UNCHANGED <<file, vres, sres, indexVars, formVars>>

Next == Validate \/ Submit \/ Extract

Spec == Init /\ [][Next]_vars

\* A skills tree (or none) and the Index Builder run on it, again and again.
InitIndex ==
  /\ DocIdle
  /\ \/ skills_dir = [exists |-> FALSE, files |-> {}]
     \/ \E S \in Trees : skills_dir = [exists |-> TRUE, files |-> S]
  /\ IndexIdle
  /\ FormIdle

\* python generate_index.py
Generate ==
  /\ runs < MaxRuns
  /\ runs' = runs + 1
  /\ clock' = clock + 1
  /\ \E order \in Orders(skills_dir.files) :
       \E o \in {generate_index(skills_dir, order, clock', index_file, BaseUrl)} :
         /\ index' = o.index
         /\ skill_count' = o.skill_count
         /\ error_count' = o.error_count
         /\ processed' = o.processed
         /\ index_file' = o.index_file
         /\ result' = o.result
         /\ exit_code' = index_exit(o.result)
  /\ prev_file' = index_file
  /\ prev_result' = result
  /\ UNCHANGED <<docVars, skills_dir, formVars>>

NextIndex == Generate

SpecIndex == InitIndex /\ [][NextIndex]_vars

\* A submitted form and extract_category run on its issue body.
InitCategory ==
  /\ DocIdle
  /\ skills_dir = [exists |-> FALSE, files |-> {}]
  /\ IndexIdle
  /\ form \in Forms
  /\ issue_body = FormBody(form)
  /\ extracted = FALSE
  /\ form_category = <<>>

\* form_category = extract_category(issue_body)
ExtractCategory ==
  /\ ~extracted
  /\ extracted' = TRUE
  /\ form_category' = extract_category(issue_body)
  /\ UNCHANGED <<docVars, indexVars, form, issue_body>>

NextCategory == ExtractCategory

SpecCategory == InitCategory /\ [][NextCategory]_vars

\* --------------------------------------------------------- the properties

\* The document a tool looked at: the file's text for the standalone
\* validator, the pasted text for the submission path.
ValidateRan == tool = "validate" /\ file.exists /\ file.readable
SubmitRan == tool = "submit" /\ sres.validated

\* The first line of a text (without its newline).
FirstLine(c) ==
  LET ends == {i \in 1..Len(c) : c[i] = NL}
  IN IF ends = {} THEN c
     ELSE SubSeq(c, 1, (CHOOSE i \in ends : \A j \in ends : i <= j) - 1)

\* The text begins with the three characters "---".
BeginsWithDashes(c) == Len(c) >= 3 /\ c[1] = DASH /\ c[2] = DASH /\ c[3] = DASH

\* A run returned exactly one error and no warning.
OneErrorOnly(r) == ~r.raised /\ Len(r.errors) = 1 /\ r.warnings = <<>>

LineDoc(c) ==
  /\ Len(c) >= 9
  /\ BeginsWithDashes(c)
  /\ c[4] = NL
  /\ c[5].c = "Y"
  /\ c[6] = NL
  /\ SubSeq(c, 7, 9) = DDD
  /\ (Len(c) = 9 \/ c[10] = NL)

\* What such a document's frontmatter holds, and its body.
DocData(c) == c[5].y
DocMetadata(c) == c[5].y.m
DocBody(c) == SubSeq(c, 11, Len(c))

\* The frontmatter is a mapping whose metadata is a mapping.
HasMetadata(c) == LineDoc(c) /\ DocData(c).t = "map" /\ DocMetadata(c).t = "map"

\* A required field is there and holds what the data model says it holds:
\* a non-empty sequence for tags, a non-empty string for the others.
FieldValid(m, k) ==
  IF k = "tags" THEN m.f[k].t = "list" /\ m.f[k].s # <<>>
  ELSE m.f[k].t = "str" /\ m.f[k].s # <<>>

\* All five required sections are in the body as level-2 headings.
AllSectionsIn(body) ==
  \A w \in {"Overview", "Task Description", "Steps", "Expected Output", "Success Criteria"} :
    \E i \in 1..Len(body) :
      /\ (i = 1 \/ body[i - 1] = NL)
      /\ i + 3 <= Len(body)
      /\ SubSeq(body, i, i + 3) = <<HASH, HASH, SP, Ch(w)>>

\* The document meets every rule the standalone validator puts on the
\* required fields (kebab-case name equal to the file name, X.Y.Z version)
\* and has the five sections.
StandaloneValid(f) ==
  /\ HasMetadata(f.content)
  /\ \A k \in {"name", "version", "description", "category", "tags", "author"} :
       FieldValid(DocMetadata(f.content), k)
  /\ IsKebab(DocMetadata(f.content).f["name"].s)
  /\ f.name = DocMetadata(f.content).f["name"].s \o <<".", "m", "d">>
  /\ IsSemver(DocMetadata(f.content).f["version"].s)
  /\ AllSectionsIn(DocBody(f.content))

\* The same for the submission path: five required fields, a name of
\* letters, digits and hyphens, and a body after the closing line.
SubmissionValid(c) ==
  /\ HasMetadata(c)
  /\ \A k \in {"name", "description", "category", "tags", "author"} :
       FieldValid(DocMetadata(c), k)
  /\ IsAlnumHyphen(DocMetadata(c).f["name"].s)
  /\ AllSectionsIn(DocBody(c))

\* C2: a document with well-formed frontmatter, all required fields and all
\* required sections gets zero errors from both validators.
C2_ZeroErrors ==
  /\ (ValidateRan /\ StandaloneValid(file)) =>
       (~vres.res.raised /\ vres.res.errors = <<>>)
  /\ (SubmitRan /\ SubmissionValid(sres.skill_content)) =>
       (~sres.res.raised /\ sres.res.errors = <<>>)

\* The frontmatter of the document does not parse, or parses to something
\* that is no mapping.
ParseFailure(c) == LineDoc(c) /\ DocData(c).t \in {"error", "str", "list", "null"}

\* C3: a frontmatter parse failure is reported as a single error with
\* short-circuit, and validate_skill never ends in an uncaught exception,
\* in both validators.
C3_ParseFailure ==
  /\ tool = "validate" => ~vres.res.raised
  /\ SubmitRan => ~sres.res.raised
  /\ (ValidateRan /\ ParseFailure(file.content)) => OneErrorOnly(vres.res)
  /\ (SubmitRan /\ ParseFailure(sres.skill_content)) => OneErrorOnly(sres.res)

\* A line of c starts at i and consists of "---" (white space may follow).
DelimiterLineAt(c, i) ==
  /\ (i = 1 \/ c[i - 1] = NL)
  /\ i + 2 <= Len(c)
  /\ SubSeq(c, i, i + 2) = DDD
  /\ \E e \in (i + 3)..(Len(c) + 1) :
       /\ (e = Len(c) + 1 \/ c[e] = NL)
       /\ \A j \in (i + 3)..(e - 1) : c[j] = SP

\* The document opens with a "---" line and has no second one.
LacksClosingLine(c) ==
  /\ DelimiterLineAt(c, 1)
  /\ \A i \in 2..Len(c) : ~DelimiterLineAt(c, i)

\* The run came back with a single error, one of the parse failures.
FatalParseFailure(r) ==
  /\ OneErrorOnly(r)
  /\ r.errors[1].k \in {"NoClosingDelimiter", "InvalidYaml", "EmptyFrontmatter",
                        "ParseFailed", "InvalidFrontmatter"}

\* C6: a document that lacks the closing "---" line is a fatal parse
\* failure for both validators and is skipped by the Index Builder; a "---"
\* inside a line never ends the frontmatter.
C6_ClosingLine ==
  /\ (ValidateRan /\ LacksClosingLine(file.content)) => FatalParseFailure(vres.res)
  /\ (SubmitRan /\ LacksClosingLine(sres.skill_content)) => FatalParseFailure(sres.res)
  /\ (tool = "extract" /\ file.readable /\ LacksClosingLine(file.content)) =>
       ~MetaTruthy(eres)

\* metadata.tags holds a scalar.
ScalarTags(c) == HasMetadata(c) /\ DocMetadata(c).f["tags"].t \in {"str", "num", "date"}

MentionsTags(r) == \E i \in 1..Len(r.errors) : r.errors[i].a = "tags"

\* The demo skill of the spec's scenario with tags: "a,b,c".
TagsScenario(c) ==
  /\ HasMetadata(c)
  /\ DocMetadata(c).f = [DemoFields EXCEPT !["tags"] = Str(<<"a", ",", "b", ",", "c">>)]
  /\ AllSectionsIn(DocBody(c))

\* C7: a document whose tags hold a scalar gets an error that mentions tags
\* from both validators, and in the tags: "a,b,c" scenario no other error.
C7_ScalarTags ==
  /\ (ValidateRan /\ ScalarTags(file.content)) =>
       (~vres.res.raised /\ MentionsTags(vres.res))
  /\ (SubmitRan /\ ScalarTags(sres.skill_content)) =>
       (~sres.res.raised /\ MentionsTags(sres.res))
  /\ (ValidateRan /\ TagsScenario(file.content) /\ file.name = DemoFile.name) =>
       (~vres.res.raised /\ Len(vres.res.errors) = 1 /\ MentionsTags(vres.res))
  /\ (SubmitRan /\ TagsScenario(sres.skill_content)) =>
       (~sres.res.raised /\ Len(sres.res.errors) = 1 /\ MentionsTags(sres.res))

\* C8: whenever a validator returns, its verdict is "invalid" exactly when
\* its errors list is not empty, whatever the warnings: is_valid equals
\* (errors is empty) in the submission path, which exits 1 on an invalid
\* verdict, and the standalone validator exits 1 when there are errors and
\* 0 when there are none.
C8_Verdict ==
  /\ (tool = "validate" /\ ~vres.res.raised) =>
       vres.exit = (IF vres.res.errors # <<>> THEN 1 ELSE 0)
  /\ (SubmitRan /\ ~sres.res.raised) =>
       /\ sres.res.is_valid = (sres.res.errors = <<>>)
       /\ (~sres.res.is_valid => sres.exit = 1)

\* The standalone validator passed a skill it had warnings about.
C8_Witness ==
  /\ tool = "validate"
  /\ ~vres.res.raised
  /\ vres.res.errors = <<>>
  /\ vres.res.warnings # <<>>
  /\ vres.exit = 0

\* The files of the tree whose text the Index Builder can turn into an
\* entry: readable, metadata with a name and a description.
FileAt(p) == CHOOSE f \in skills_dir.files : f.path = p

Indexable(f) ==
  /\ f.readable
  /\ Len(f.content) >= 5
  /\ f.content[5].c = "Y"
  /\ DocData(f.content).t = "map"
  /\ DocMetadata(f.content).t = "map"
  /\ Truthy(DocMetadata(f.content).f["name"])
  /\ Truthy(DocMetadata(f.content).f["description"])

FirstRunDone == runs >= 1 /\ skills_dir.exists

\* The tree of the scenario: the demo skill and a file without name.
ScenarioTree ==
  /\ Cardinality(skills_dir.files) = 2
  /\ DemoFile \in skills_dir.files
  /\ \E f \in skills_dir.files :
       /\ HasMetadata(f.content)
       /\ DocMetadata(f.content).f = [DemoFields EXCEPT !["name"] = Absent]

\* C4: a run of the Index Builder never aborts because of a bad file: it
\* goes through every file of the tree, skips and counts the bad ones and
\* indexes the others; the demo skill next to a file without name gives one
\* entry, error count 1 and success.
C4_Isolation ==
  /\ FirstRunDone =>
       /\ result \in {"true", "false"}
       /\ Len(processed) = Cardinality(skills_dir.files)
       /\ skill_count = Cardinality({f \in skills_dir.files : Indexable(f)})
       /\ error_count = Cardinality({f \in skills_dir.files : ~Indexable(f)})
  /\ (FirstRunDone /\ ScenarioTree) =>
       /\ Len(index_file.doc.skills) = 1
       /\ error_count = 1
       /\ result = "true"

\* C5: the Index Builder reports success exactly when it indexed at least
\* one skill; over an empty or a nonexistent tree it produces an index
\* document with zero entries and reports failure.
C5_Success ==
  /\ runs >= 1 => ((result = "true") <=> (skill_count > 0))
  /\ (runs >= 1 /\ (~skills_dir.exists \/ skills_dir.files = {})) =>
       /\ index_file.exists
       /\ index_file.complete
       /\ index_file.doc.skills = <<>>
       /\ result = "false"

\* Two index documents are the same but for the generated timestamp.
SameButGenerated(a, b) ==
  /\ a.exists = b.exists
  /\ a.complete = b.complete
  /\ a.doc.version = b.doc.version
  /\ a.doc.skills = b.doc.skills

\* C9: two runs of the Index Builder on an unchanged tree leave the same
\* index document, but for the generated timestamp: same schema version,
\* same entries, in the order of their paths.
C9_Idempotent ==
  runs >= 2 =>
    /\ result = prev_result
    /\ SameButGenerated(index_file, prev_file)
    /\ \A i, j \in 1..Len(index_file.doc.skills) :
         i < j => index_file.doc.skills[i].path < index_file.doc.skills[j].path

\* The second run rewrote an index of two entries with a new timestamp.
C9_Witness ==
  /\ runs = 2
  /\ index_file.complete
  /\ prev_file.complete
  /\ Len(index_file.doc.skills) = 2
  /\ index_file.doc.generated # prev_file.doc.generated

\* The value an entry has for a field the metadata leaves out.
DefaultOf(k, f) ==
  CASE k = "version" -> Str(<<"1", ".", "0", ".", "0">>)
    [] k = "category" -> Str(f.parent)
    [] k = "tags" -> Lst(<<>>)
    [] k = "author" -> Str(<<"u", "n", "k", "n", "o", "w", "n">>)
    [] OTHER -> Str(<<>>)

\* The entry of the file f reproduces f's metadata.
Reproduces(e, f) ==
  /\ e.path = f.path
  /\ e.url = <<BaseUrl, f.path>>
  /\ \A k \in Fields :
       e.f[k] = IF DocMetadata(f.content).f[k].t = "absent" THEN DefaultOf(k, f)
                ELSE DocMetadata(f.content).f[k]

\* C10: every entry of the index has, for each field its file's metadata
\* holds, that very value (an empty one too), and the default only for a
\* field the metadata leaves out: the directory name for category, "1.0.0"
\* for version, "unknown" for author, an empty string or list for the rest;
\* path and url are those of the file.
C10_Verbatim ==
  FirstRunDone =>
    \A i \in 1..Len(index.skills) :
      /\ \E f \in skills_dir.files : f.path = index.skills[i].path
      /\ Reproduces(index.skills[i], FileAt(index.skills[i].path))

\* An entry came from metadata with an empty category, no author and no
\* tags given, and another from metadata that leaves the category out.
C10_Witness ==
  /\ FirstRunDone
  /\ \E i \in 1..Len(index.skills) :
       /\ index.skills[i].f["category"] = Str(<<>>)
       /\ index.skills[i].f["author"] = PyNone
  /\ \E i \in 1..Len(index.skills) :
       /\ DocMetadata(FileAt(index.skills[i].path).content).f["category"].t = "absent"
       /\ index.skills[i].f["category"] = Str(FileAt(index.skills[i].path).parent)

\* A category as the spec wants it returned: lower-cased, every space a
\* hyphen.
Normalised(t) == [i \in 1..Len(t) |-> IF t[i] = SP THEN DASH ELSE LowerSymbol(t[i])]

NoCapitalNoSpace(t) == \A i \in 1..Len(t) : t[i].c \notin Upper /\ t[i] # SP

\* "other" was selected, in whatever case.
OtherSelected(f) == Normalised(Strip(f.selected)) = Other

\* str.lower() alone
Lowered(t) == [i \in 1..Len(t) |-> LowerSymbol(t[i])]

\* "other" was selected and the custom category field holds something.
CustomGiven(f) == OtherSelected(f) /\ f.has_custom /\ Strip(f.custom) # <<>>

StepsText(body) ==
  LET from == Find(body, Section("Steps"), 1) + Len(Section("Steps"))
      after == SubSeq(body, from, Len(body))
      ends == {i \in 1..Len(after) : MatchAt(after, <<NL, HASH, HASH, SP>>, i)}
  IN IF ends = {} THEN after
     ELSE SubSeq(after, 1, (CHOOSE i \in ends : \A j \in ends : i <= j) - 1)

\* A level-3 heading of the form "### <integer>." is in the text.
NumberedHeadingIn(t) ==
  \E i \in 1..Len(t) : \E k \in (i + 5)..Len(t) :
    /\ MatchAt(t, <<HASH, HASH, HASH, SP>>, i)
    /\ \A x \in (i + 4)..(k - 1) : t[x].c \in Digit
    /\ t[k] = DOT

\* The standalone validator went through its checks on a document whose body
\* has a "## Steps" heading.
StepsChecked ==
  /\ ValidateRan
  /\ HasMetadata(file.content)
  /\ ~vres.res.raised
  /\ Contains(DocBody(file.content), Section("Steps"))

StepsWarned ==
  \E i \in 1..Len(vres.res.warnings) : vres.res.warnings[i].k = "StepsNotNumbered"

\* C12: when the body has a "## Steps" heading, the standalone validator
\* gives the numbered-subsections warning exactly when the text between that
\* heading and the next level-2 heading has no "### <integer>." heading; a
\* Steps section with "### 1." in it gets no such warning.
C12_StepsWarning ==
  StepsChecked => (StepsWarned <=> ~NumberedHeadingIn(StepsText(DocBody(file.content))))

====
